---- MODULE Spec2Model ----
(***************************************************************************)
(* splitit (server.py): the receipt clean-up core (clamp_money,            *)
(* normalize_receipt, merge_receipts) and the POST handler that drives it. *)
(*                                                                         *)
(* Python values are tagged records:                                       *)
(*   [t |-> "null"]                 None                                   *)
(*   [t |-> "bool", b |-> TRUE]     True / False                           *)
(*   [t |-> "int", n |-> 3]         int                                    *)
(*   [t |-> "bigint"]               an int too large for a float           *)
(*   [t |-> "float", m |-> 1005]    finite float, m in thousandths (1.005) *)
(*   [t |-> "inf"], [t |-> "ninf"], [t |-> "nan"]   the special floats     *)
(*   [t |-> "str", s |-> <<"a">>]   str, a sequence of characters          *)
(*   [t |-> "list", xs |-> <<..>>]  list                                   *)
(*   [t |-> "dict", f |-> [k |-> v]] dict with string keys                 *)
(* A raised exception is the outcome [t |-> "raise"].                      *)
(***************************************************************************)
EXTENDS Integers, Sequences, FiniteSets, TLC

VARIABLES
    x, clamped,                 \* clamp_money: argument, return value
    d, out, again,              \* normalize_receipt: argument, return, normalize_receipt(out)
    receipts, merged, ri,       \* merge_receipts: argument, accumulator, loop position
    has_sdk, api_key,           \* HAS_SDK, API_KEY (fixed at startup)
    path, length, body,         \* the POST request
    pc, idx, collected,         \* handler position, loop index, handle_parse_multi's receipts
    log, response               \* what the handler did per image (entry, event), response sent

vars == <<x, clamped, d, out, again, receipts, merged, ri,
          has_sdk, api_key, path, length, body, pc, idx, collected, log, response>>

(***************************************************************************)
(* Bounds of the model.                                                    *)
(***************************************************************************)
MaxMills  == 26     \* finite float inputs of clamp_money range over -MaxMills..MaxMills thousandths
MaxItems  == 3      \* longest items list handed to normalize_receipt
MaxReceipts == 3    \* longest receipt sequence handed to merge_receipts
MaxImages == 3      \* longest images[] of a /parse_multi request

(***************************************************************************)
(* Value constructors.                                                     *)
(***************************************************************************)
PyNone      == [t |-> "null"]
PyBool(b)   == [t |-> "bool", b |-> b]
PyInt(n)    == [t |-> "int", n |-> n]
PyBigInt    == [t |-> "bigint"]
PyFloat(m)  == [t |-> "float", m |-> m]
PyInf       == [t |-> "inf"]
PyNegInf    == [t |-> "ninf"]
PyNaN       == [t |-> "nan"]
PyStr(s)    == [t |-> "str", s |-> s]
PyList(xs)  == [t |-> "list", xs |-> xs]
PyDict(f)   == [t |-> "dict", f |-> f]
Raise       == [t |-> "raise"]
Unset       == [t |-> "unset"]

\* dict.get(k, default)
Get(dct, k, default) == IF k \in DOMAIN dct.f THEN dct.f[k] ELSE default

\* Python truthiness (the `x or y` of lines 88, 96, 103)
Truthy(v) ==
    CASE v.t = "null"  -> FALSE
      [] v.t = "bool"  -> v.b
      [] v.t = "int"   -> v.n # 0
      [] v.t = "float" -> v.m # 0
      [] v.t = "str"   -> v.s # <<>>
      [] v.t = "list"  -> v.xs # <<>>
      [] v.t = "dict"  -> DOMAIN v.f # {}
      [] OTHER         -> TRUE

\* x or y
Or(a, b) == IF Truthy(a) THEN a ELSE b

(***************************************************************************)
(* Strings.                                                                *)
(***************************************************************************)
Lower == <<"a","b","c","d","e","f","g","h","i","j","k","l","m",
           "n","o","p","q","r","s","t","u","v","w","x","y","z">>
Upper == <<"A","B","C","D","E","F","G","H","I","J","K","L","M",
           "N","O","P","Q","R","S","T","U","V","W","X","Y","Z">>
DigitChars == <<"0","1","2","3","4","5","6","7","8","9">>

IsSpace(c) == c \in {" ", "\t", "\n"}

\* str.upper(), one character
UpperChar(c) ==
    IF \E i \in 1..26 : Lower[i] = c
    THEN Upper[CHOOSE i \in 1..26 : Lower[i] = c]
    ELSE c

LowerChar(c) ==
    IF \E i \in 1..26 : Upper[i] = c
    THEN Lower[CHOOSE i \in 1..26 : Upper[i] = c]
    ELSE c

\* str.upper()
StrUpper(s) == [i \in 1..Len(s) |-> UpperChar(s[i])]
StrLower(s) == [i \in 1..Len(s) |-> LowerChar(s[i])]

\* str.strip()
RECURSIVE LStrip(_)
LStrip(s) == IF s # <<>> /\ IsSpace(Head(s)) THEN LStrip(Tail(s)) ELSE s

RECURSIVE RStrip(_)
RStrip(s) ==
    IF s # <<>> /\ IsSpace(s[Len(s)]) THEN RStrip(SubSeq(s, 1, Len(s) - 1)) ELSE s

Strip(s) == RStrip(LStrip(s))

\* `k in s` for strings
Contains(s, k) ==
    \E i \in 0..(Len(s) - Len(k)) : SubSeq(s, i + 1, i + Len(k)) = k

IsDigit(c) == \E i \in 1..10 : DigitChars[i] = c
DigitVal(c) == (CHOOSE i \in 1..10 : DigitChars[i] = c) - 1

AllDigits(s) == \A i \in 1..Len(s) : IsDigit(s[i])

RECURSIVE DecVal(_)
DecVal(s) == IF s = <<>> THEN 0
             ELSE 10 * DecVal(SubSeq(s, 1, Len(s) - 1)) + DigitVal(s[Len(s)])

\* digits of a natural number, as str() prints them
RECURSIVE NatStr(_)
NatStr(n) == IF n < 10 THEN <<DigitChars[n + 1]>>
             ELSE NatStr(n \div 10) \o <<DigitChars[(n % 10) + 1]>>

\* position of the first "." in s, or 0
DotPos(s) == IF \E i \in 1..Len(s) : s[i] = "."
             THEN CHOOSE i \in 1..Len(s) : s[i] = "." /\ \A j \in 1..(i - 1) : s[j] # "."
             ELSE 0

(***************************************************************************)
(* float(x) and str(x) of the Python runtime, as clamp_money and           *)
(* normalize_receipt use them.                                             *)
(***************************************************************************)
Word_inf      == <<"i","n","f">>
Word_infinity == <<"i","n","f","i","n","i","t","y">>
Word_nan      == <<"n","a","n">>

\* the first three decimals of a fraction's digits, as thousandths
FracMills(fp) ==
    LET p == SubSeq(fp \o <<"0","0","0">>, 1, 3) IN DecVal(p)

\* float(s) for a str: surrounding whitespace is ignored, a sign is allowed,
\* inf / infinity / nan are read in any letter case, and a plain decimal
\* numeral gives its value (kept to the thousandth).  Anything else is a
\* ValueError.  Exponents and digit separators are not part of the strings the
\* model draws.
ParseFloat(s0) ==
    LET s      == Strip(s0)
        signed == s # <<>> /\ s[1] \in {"+", "-"}
        neg    == s # <<>> /\ s[1] = "-"
        u      == IF signed THEN Tail(s) ELSE s
        w      == StrLower(u)
        dot    == DotPos(u)
        ip     == IF dot = 0 THEN u ELSE SubSeq(u, 1, dot - 1)
        fp     == IF dot = 0 THEN <<>> ELSE SubSeq(u, dot + 1, Len(u))
        mag    == DecVal(ip) * 1000 + FracMills(fp)
    IN  IF w = Word_inf \/ w = Word_infinity
        THEN (IF neg THEN PyNegInf ELSE PyInf)
        ELSE IF w = Word_nan THEN PyNaN
        ELSE IF AllDigits(ip) /\ AllDigits(fp) /\ Len(ip) + Len(fp) > 0
        THEN PyFloat(IF neg THEN 0 - mag ELSE mag)
        ELSE Raise

\* float(x): line 78
ToFloat(v) ==
    CASE v.t = "int"   -> PyFloat(v.n * 1000)
      [] v.t = "bool"  -> PyFloat(IF v.b THEN 1000 ELSE 0)
      [] v.t \in {"float", "inf", "ninf", "nan"} -> v
      [] v.t = "str"   -> ParseFloat(v.s)
      [] OTHER         -> Raise   \* TypeError (None, list, dict), OverflowError (huge int)

\* repr of a finite float on the thousandth grid: 2.0, 1.5, 0.005, -3.25
FloatStr(m) ==
    LET a    == IF m < 0 THEN 0 - m ELSE m
        f    == a % 1000
        frac == IF f = 0 THEN <<"0">>
                ELSE IF f % 100 = 0 THEN NatStr(f \div 100)
                ELSE IF f % 10 = 0
                     THEN <<DigitChars[(f \div 100) + 1]>> \o NatStr((f \div 10) % 10)
                ELSE <<DigitChars[(f \div 100) + 1], DigitChars[((f \div 10) % 10) + 1],
                       DigitChars[(f % 10) + 1]>>
    IN  (IF m < 0 THEN <<"-">> ELSE <<>>) \o NatStr(a \div 1000) \o <<".">> \o frac

\* str(x) for the scalar values (lines 88, 103); a str is returned as it is
StrOf(v) ==
    CASE v.t = "str"   -> v.s
      [] v.t = "null"  -> <<"N","o","n","e">>
      [] v.t = "bool"  -> IF v.b THEN <<"T","r","u","e">> ELSE <<"F","a","l","s","e">>
      [] v.t = "int"   -> IF v.n < 0 THEN <<"-">> \o NatStr(0 - v.n) ELSE NatStr(v.n)
      [] v.t = "float" -> FloatStr(v.m)
      [] v.t = "inf"   -> Word_inf
      [] v.t = "ninf"  -> <<"-">> \o Word_inf
      [] v.t = "nan"   -> Word_nan

(***************************************************************************)
(* clamp_money (lines 76-83).                                              *)
(***************************************************************************)
Zero == PyFloat(0)

\* v != v or v < 0   (line 79)
IsNaNOrNegative(v) ==
    \/ v.t = "nan"
    \/ v.t = "ninf"
    \/ v.t = "float" /\ v.m < 0

\* a rounding whose bias is half a cent instead of 1e-9
Round2HalfCentBias(v) ==
    IF v.t = "inf" THEN PyInf ELSE PyFloat(10 * ((v.m + 10) \div 10))

\* round(v + 1e-9, 2)   (line 81): the bias breaks every x.xx5 tie upwards, so on
\* the thousandth grid the result is floor((m + 5) / 10) hundredths; round()
\* with ndigits returns an infinite float unchanged.
Round2(v) ==
    IF v.t = "inf" THEN PyInf ELSE PyFloat(10 * ((v.m + 5) \div 10))

clamp_money(a) ==
    LET v == ToFloat(a)
    IN  IF v.t = "raise" THEN Zero                \* except Exception: return 0.0
        ELSE IF IsNaNOrNegative(v) THEN Zero
        ELSE Round2(v)

(***************************************************************************)
(* normalize_receipt (lines 86-112).                                       *)
(***************************************************************************)
DefaultStore == <<"R","e","c","e","i","p","t">>

FORBIDDEN == << <<"S","U","B","T","O","T","A","L">>,
                <<"T","O","T","A","L">>,
                <<"T","A","X">>,
                <<"T","I","P">>,
                <<"C","H","A","N","G","E">>,
                <<"B","A","L","A","N","C","E"," ","D","U","E">> >>

\* a token test that forgets to uppercase the name
IsForbiddenCaseSensitive(name) ==
    \E k \in 1..Len(FORBIDDEN) : Contains(name, FORBIDDEN[k])

\* lines 107-108
IsForbidden(name) ==
    LET upper == StrUpper(name)
    IN  \E k \in 1..Len(FORBIDDEN) : Contains(upper, FORBIDDEN[k])

\* str(v.get(key) or "").strip()   (lines 88, 103)
TrimmedField(dct, key) ==
    Strip(StrOf(Or(Get(dct, key, PyNone), PyStr(<<>>))))

\* the loop of lines 100-110; acc is out["items"]
RECURSIVE NormalizeItems(_, _)
NormalizeItems(items, acc) ==
    IF items = <<>> THEN acc
    ELSE LET it == Head(items)
         IN  IF it.t # "dict" THEN NormalizeItems(Tail(items), acc)
             ELSE LET name  == TrimmedField(it, "name")
                      price == clamp_money(Get(it, "price", PyInt(0)))
                  IN  IF name = <<>> THEN NormalizeItems(Tail(items), acc)
                      ELSE IF IsForbidden(name) THEN NormalizeItems(Tail(items), acc)
                      ELSE NormalizeItems(Tail(items),
                               Append(acc, PyDict([name |-> PyStr(name), price |-> price])))

\* d.get(...) on anything but a dict is an AttributeError (line 88)
normalize_receipt(dd) ==
    IF dd.t # "dict" THEN Raise
    ELSE LET s      == TrimmedField(dd, "store")
             items0 == Or(Get(dd, "items", PyNone), PyList(<<>>))
             items  == IF items0.t = "list" THEN items0.xs ELSE <<>>
         IN  PyDict([store    |-> PyStr(IF s # <<>> THEN s ELSE DefaultStore),
                     items    |-> PyList(NormalizeItems(items, <<>>)),
                     tax      |-> clamp_money(Get(dd, "tax", PyInt(0))),
                     discount |-> clamp_money(Get(dd, "discount", PyInt(0))),
                     tip      |-> clamp_money(Get(dd, "tip", PyInt(0))),
                     total    |-> clamp_money(Get(dd, "total", PyInt(0)))])

(***************************************************************************)
(* Inputs of the pure functions.  Each is a decoded JSON value, as          *)
(* json.loads can produce it (NaN, Infinity, -Infinity and 1e999 decode to *)
(* the special floats).                                                    *)
(***************************************************************************)
Absent == [t |-> "absent"]      \* marks a key left out of a dict under construction

\* the dict holding the keys of kv whose value is not Absent
MkDict(kv) == PyDict([k \in {j \in DOMAIN kv : kv[j].t # "absent"} |-> kv[k]])

EmptyDict == PyDict([k \in {} |-> PyNone])

\* arguments of clamp_money besides the finite floats
ClampOdd == <<
    PyNone, PyBool(TRUE), PyBool(FALSE), PyInt(3), PyInt(0 - 2), PyBigInt,
    PyInf, PyNegInf, PyNaN,
    PyFloat(1999999995), PyFloat(0 - 1999999995),
    PyStr(<<"a","b","c">>), PyStr(<<" ","1",".","0","0","5"," ">>), PyStr(<<"-","4">>), PyStr(<<"+","2",".","5">>), PyStr(<<"i","n","f">>),
    PyStr(<<"-","I","n","f","i","n","i","t","y">>), PyStr(<<"N","a","N">>), PyStr(<<>>), PyStr(<<".">>), PyStr(<<"3",".","9","9","9">>),
    PyStr(<<"1",".">>), PyStr(<<".","5">>), PyStr(<<"1",".","2",".","3">>),
    PyList(<<>>), PyList(<<PyInt(1)>>), EmptyDict >>

\* values found under store and name
StoreVals == <<
    Absent, PyNone, PyStr(<<>>), PyStr(<<" "," ">>), PyStr(<<" ","T","r","a","d","e","r"," ","J","o","e","'","s"," ">>), PyStr(<<"R","e","c","e","i","p","t">>),
    PyInt(0), PyInt(7), PyFloat(2500), PyBool(TRUE), PyBool(FALSE), PyList(<<>>), PyNaN >>

\* elements of an items list
ItemVals == <<
    MkDict([name |-> PyStr(<<"M","i","l","k">>),          price |-> PyFloat(3999)]),
    MkDict([name |-> PyStr(<<"T","O","T","A","L">>),         price |-> PyInt(20)]),
    MkDict([name |-> PyStr(<<>>),              price |-> PyInt(1)]),
    MkDict([name |-> PyStr(<<" "," "," ">>),           price |-> PyNaN]),
    MkDict([name |-> PyStr(<<" ","S","a","l","e","s"," ","t","a","x","e","s"," ">>), price |-> PyStr(<<"2",".","5">>)]),
    MkDict([name |-> PyStr(<<"t","i","P"," ","j","a","r">>),       price |-> PyFloat(0 - 1000)]),
    MkDict([name |-> PyStr(<<"T","o"," ","t","a","l">>),        price |-> PyFloat(1005)]),
    MkDict([name |-> PyStr(<<" ","M","i","l","k">>),         price |-> Absent]),
    MkDict([name |-> PyInt(7),               price |-> PyInf]),
    MkDict([name |-> Absent,                 price |-> PyInt(2)]),
    MkDict([name |-> PyStr(<<"B","a","l","a","n","c","e"," ","d","u","e"," ","n","o","w">>), price |-> PyNone]),
    MkDict([name |-> PyStr(<<"S","m","a","l","l"," ","c","h","a","n","g","e">>),  price |-> PyFloat(250)]),
    PyStr(<<"M","i","l","k">>) >>

\* values found under items that are no list
ItemsOdd == << Absent, PyNone, PyStr(<<"M","i","l","k">>), PyInt(3), PyBool(TRUE),
               MkDict([name |-> PyStr(<<"M","i","l","k">>), price |-> PyInt(1)]) >>

\* values of tax, discount, tip, total
MoneyVals == <<
    [tax |-> PyFloat(1005), discount |-> PyInt(0),      tip |-> PyInt(0),      total |-> PyInt(20)],
    [tax |-> Absent,        discount |-> Absent,        tip |-> Absent,        total |-> Absent],
    [tax |-> PyNone,        discount |-> PyStr(<<"a","b","c">>),  tip |-> PyNaN,         total |-> PyFloat(0 - 5000)],
    [tax |-> PyInf,         discount |-> PyNegInf,      tip |-> PyBigInt,      total |-> PyStr(<<"i","n","f">>)],
    [tax |-> PyStr(<<"1",".","2","5">>), discount |-> PyBool(TRUE),  tip |-> PyFloat(2994), total |-> PyFloat(45200)],
    [tax |-> PyList(<<>>),  discount |-> EmptyDict,     tip |-> PyFloat(4),    total |-> PyFloat(5)] >>

\* arguments of normalize_receipt that are no dict
NotDicts == << PyNone, PyList(<<>>), PyList(<<EmptyDict>>), PyStr(<<"M","i","l","k">>), PyStr(<<>>),
               PyInt(5), PyFloat(1500), PyBool(TRUE), PyBool(FALSE), PyNaN >>

RawReceipt(store, items, money) ==
    MkDict([store |-> store, items |-> items, tax |-> money.tax,
            discount |-> money.discount, tip |-> money.tip, total |-> money.total])

\* the list of n elements of ItemVals that pick selects
ItemList(n, pick) == [i \in 1..n |-> ItemVals[pick[i]]]

(***************************************************************************)
(* clamp_money applied to one argument.                                    *)
(***************************************************************************)
pureIdle == /\ receipts = <<>> /\ merged = Unset /\ ri = 0
serverIdle ==
    /\ has_sdk = FALSE /\ api_key = "" /\ path = "" /\ length = 0
    /\ body = Unset /\ pc = "idle" /\ idx = 0 /\ collected = <<>>
    /\ log = <<>> /\ response = Unset

serverVars == <<has_sdk, api_key, path, length, body, pc, idx, collected, log, response>>

InitClamp ==
    /\ \/ \E m \in (0 - MaxMills)..MaxMills : x = PyFloat(m)
       \/ \E i \in 1..Len(ClampOdd) : x = ClampOdd[i]
    /\ clamped = Unset
    /\ d = Unset /\ out = Unset /\ again = Unset
    /\ pureIdle /\ serverIdle

ClampCall ==
    /\ clamped = Unset
    /\ clamped' = clamp_money(x)
    /\ UNCHANGED <<x, d, out, again, receipts, merged, ri, serverVars>>

\* clamp_money applied to its own result
ClampAgain ==
    /\ clamped # Unset
    /\ x # clamped
    /\ x' = clamped
    /\ clamped' = clamp_money(clamped)
    /\ UNCHANGED <<d, out, again, receipts, merged, ri, serverVars>>

NextClamp == ClampCall \/ ClampAgain

SpecClamp == InitClamp /\ [][NextClamp]_vars

(***************************************************************************)
(* normalize_receipt applied to one decoded value, and then to its result. *)
(***************************************************************************)
InitNormalize ==
    /\ \/ \E i \in 1..Len(NotDicts) : d = NotDicts[i]
       \/ \E k \in 1..Len(MoneyVals), n \in 0..MaxItems :
              \E pick \in [1..n -> 1..Len(ItemVals)] :
                  d = RawReceipt(StoreVals[k], PyList(ItemList(n, pick)), MoneyVals[k])
       \/ \E i \in 1..Len(StoreVals), j \in 1..Len(MoneyVals), k \in 1..Len(ItemsOdd) :
              d = RawReceipt(StoreVals[i], ItemsOdd[k], MoneyVals[j])
    /\ out = Unset /\ again = Unset
    /\ x = Unset /\ clamped = Unset
    /\ pureIdle /\ serverIdle

Normalize ==
    /\ out = Unset
    /\ out' = normalize_receipt(d)
    /\ UNCHANGED <<x, clamped, d, again, receipts, merged, ri, serverVars>>

\* the returned Receipt handed to normalize_receipt as if it were raw input
Renormalize ==
    /\ out # Unset /\ out.t = "dict"
    /\ again = Unset
    /\ again' = normalize_receipt(out)
    /\ UNCHANGED <<x, clamped, d, out, receipts, merged, ri, serverVars>>

NextNormalize == Normalize \/ Renormalize

SpecNormalize == InitNormalize /\ [][NextNormalize]_vars

(***************************************************************************)
(* Properties of clamp_money and normalize_receipt.                        *)
(***************************************************************************)
\* a finite amount >= 0 with two decimals
IsAmount(v) == v.t = "float" /\ v.m >= 0 /\ v.m % 10 = 0

IsLineItem(v) ==
    /\ v.t = "dict" /\ DOMAIN v.f = {"name", "price"}
    /\ v.f.name.t = "str" /\ v.f.price.t \in {"float", "inf"}

\* a Receipt: non-empty store, a list of items, four monetary fields
IsReceipt(v) ==
    /\ v.t = "dict"
    /\ DOMAIN v.f = {"store", "items", "tax", "discount", "tip", "total"}
    /\ v.f.store.t = "str" /\ v.f.store.s # <<>>
    /\ v.f.items.t = "list"
    /\ \A i \in 1..Len(v.f.items.xs) : IsLineItem(v.f.items.xs[i])
    /\ \A k \in {"tax", "discount", "tip", "total"} : v.f[k].t \in {"float", "inf"}

\* nothing usable: no store text, no item that survives, no positive amount
NothingUsable(dd) ==
    /\ dd.t # "dict" \/ TrimmedField(dd, "store") = <<>>
    /\ dd.t # "dict" \/ Get(dd, "items", PyNone).t # "list"
          \/ Get(dd, "items", PyNone).xs = <<>>
    /\ dd.t # "dict"
          \/ \A k \in {"tax", "discount", "tip", "total"} : ~ (k \in DOMAIN dd.f)

DefaultReceipt ==
    PyDict([store |-> PyStr(DefaultStore), items |-> PyList(<<>>),
            tax |-> Zero, discount |-> Zero, tip |-> Zero, total |-> Zero])

\* C1: normalize_receipt never raises: for every decoded JSON value (a mapping,
\* but also null, a list, a string, a number, a boolean) it returns a Receipt,
\* and the default Receipt when nothing usable is present.
C1_NormalizeTotal ==
    out # Unset =>
        /\ IsReceipt(out)
        /\ NothingUsable(d) => out = DefaultReceipt

\* C2: clamp_money's result is always a finite amount >= 0 with two decimals
\* (never infinite, never NaN, never negative), whatever the argument.
C2_ClampFiniteAmount ==
    clamped # Unset => IsAmount(clamped)

\* a token, in any letter case, occurs in name
HasTokenAnyCase(name) ==
    \E k \in 1..Len(FORBIDDEN) :
        \E i \in 1..Len(name) :
            /\ i + Len(FORBIDDEN[k]) - 1 <= Len(name)
            /\ \A j \in 1..Len(FORBIDDEN[k]) :
                   LowerChar(name[i + j - 1]) = LowerChar(FORBIDDEN[k][j])

\* the elements of an input items list that are kept
KeptElement(e) ==
    /\ e.t = "dict"
    /\ TrimmedField(e, "name") # <<>>
    /\ ~ HasTokenAnyCase(TrimmedField(e, "name"))

ExpectedItems(xs) ==
    LET kept == SelectSeq(xs, KeptElement)
    IN  [i \in 1..Len(kept) |->
            PyDict([name  |-> PyStr(TrimmedField(kept[i], "name")),
                    price |-> clamp_money(Get(kept[i], "price", PyInt(0)))])]

HasItemsList(dd) == dd.t = "dict" /\ Get(dd, "items", PyNone).t = "list"

\* C3: for a mapping with a list under items, the result's items are exactly the
\* input elements that are mappings with a non-empty trimmed name holding no
\* forbidden token in any letter case, in their order, duplicates kept, each price
\* clamped; so no output name is empty or holds a forbidden token.
C3_ItemsFiltered ==
    (out # Unset /\ HasItemsList(d)) =>
        /\ out.t = "dict"
        /\ out.f.items.xs = ExpectedItems(d.f.items.xs)
        /\ \A i \in 1..Len(out.f.items.xs) :
               /\ out.f.items.xs[i].f.name.s # <<>>
               /\ ~ HasTokenAnyCase(out.f.items.xs[i].f.name.s)

\* C3 witness: a forbidden element dropped between two kept elements that end
\* with the same name and different prices
C3_Witness ==
    /\ out # Unset /\ HasItemsList(d)
    /\ Len(d.f.items.xs) = 3
    /\ d.f.items.xs[2].t = "dict" /\ IsForbidden(TrimmedField(d.f.items.xs[2], "name"))
    /\ Len(out.f.items.xs) = 2
    /\ out.f.items.xs[1].f.name = out.f.items.xs[2].f.name
    /\ out.f.items.xs[1].f.price # out.f.items.xs[2].f.price

\* C10: normalize_receipt applied to a Receipt it returned gives that Receipt
\* back: same store, same items (names, prices, order), same four amounts.
C10_NormalizeIdempotent ==
    again # Unset => again = out

\* C10 witness: a result that differs from its raw input in store, item and tax
C10_Witness ==
    /\ again # Unset /\ again.t = "dict"
    /\ Len(out.f.items.xs) > 0
    /\ out.f.store.s # DefaultStore
    /\ out.f.store # Get(d, "store", PyNone)
    /\ out.f.tax # Get(d, "tax", PyNone) /\ out.f.tax # Zero
    /\ out.f.items.xs[1] # d.f.items.xs[1]

(***************************************************************************)
(* merge_receipts (lines 137-162).                                         *)
(***************************************************************************)
MoneyKeys == <<"tax", "discount", "tip", "total">>

\* line 145
MergedInit ==
    PyDict([store |-> PyStr(DefaultStore), items |-> PyList(<<>>),
            tax |-> Zero, discount |-> Zero, tip |-> Zero, total |-> Zero])

\* v > 0 for a float
Positive(v) == v.t = "inf" \/ (v.t = "float" /\ v.m > 0)

\* a store rule where every non-empty store overwrites the accumulator's
TakeStoreLastWins(mstore, r) ==
    IF Truthy(Get(r, "store", PyNone)) THEN r.f.store ELSE mstore

\* lines 147-148
TakeStore(mstore, r) ==
    IF Truthy(Get(r, "store", PyNone)) /\ mstore = PyStr(DefaultStore)
    THEN r.f.store
    ELSE mstore

\* an items rule that skips an item the accumulator already holds
ExtendItemsDedup(acc, r) ==
    LET its == Get(r, "items", PyList(<<>>)).xs
    IN  acc \o SelectSeq(its, LAMBDA e : \A i \in 1..Len(acc) : acc[i] # e)

\* line 149
ExtendItems(acc, r) == acc \o Get(r, "items", PyList(<<>>)).xs

\* a money rule that lets every receipt overwrite the field
TakeMoneyAlways(old, r, k) == clamp_money(Get(r, k, PyInt(0)))

\* lines 153-155
TakeMoney(old, r, k) ==
    LET v == clamp_money(Get(r, k, PyInt(0)))
    IN  IF Positive(v) THEN v ELSE old

\* one iteration of the loop of lines 146-155
MergeOne(m, r) ==
    PyDict([store    |-> TakeStore(m.f.store, r),
            items    |-> PyList(ExtendItems(m.f.items.xs, r)),
            tax      |-> TakeMoney(m.f.tax, r, "tax"),
            discount |-> TakeMoney(m.f.discount, r, "discount"),
            tip      |-> TakeMoney(m.f.tip, r, "tip"),
            total    |-> TakeMoney(m.f.total, r, "total")])

\* lines 157-162
MergeFinal(m) ==
    PyDict([store    |-> m.f.store,
            items    |-> m.f.items,
            tax      |-> clamp_money(m.f.tax),
            discount |-> clamp_money(m.f.discount),
            tip      |-> clamp_money(m.f.tip),
            total    |-> clamp_money(m.f.total)])

RECURSIVE MergeFrom(_, _)
MergeFrom(m, rs) == IF rs = <<>> THEN m ELSE MergeFrom(MergeOne(m, Head(rs)), Tail(rs))

merge_receipts(rs) == MergeFinal(MergeFrom(MergedInit, rs))

(***************************************************************************)
(* merge_receipts run on one sequence of receipts, an iteration at a time. *)
(***************************************************************************)
ItemA == PyDict([name |-> PyStr(<<"M","i","l","k">>),  price |-> PyFloat(4000)])
ItemB == PyDict([name |-> PyStr(<<"E","g","g","s">>),  price |-> PyFloat(2500)])
ItemC == PyDict([name |-> PyStr(<<"B","r","e","a","d">>), price |-> PyFloat(0)])

RcptMoney(tax, discount, tip, total) ==
    [tax |-> tax, discount |-> discount, tip |-> tip, total |-> total]

\* receipts handed to merge_receipts: Receipts as normalize_receipt returns
\* them, and the partial ones (an empty store, absent fields) the function's
\* .get calls allow
ReceiptPool == <<
    RawReceipt(PyStr(<<"R","e","c","e","i","p","t">>), PyList(<<ItemA, ItemB>>),
               RcptMoney(Zero, Zero, Zero, Zero)),
    RawReceipt(PyStr(<<"R","e","c","e","i","p","t">>), PyList(<<>>),
               RcptMoney(PyFloat(1000), Zero, Zero, PyFloat(45200))),
    RawReceipt(PyStr(<<"T","r","a","d","e","r"," ","J","o","e","'","s">>), PyList(<<ItemC>>),
               RcptMoney(PyFloat(2500), PyFloat(500), Zero, Zero)),
    RawReceipt(PyStr(<<"O","t","h","e","r">>), PyList(<<ItemA>>),
               RcptMoney(Zero, Zero, PyFloat(3000), PyFloat(20000))),
    RawReceipt(PyStr(<<"O","t","h","e","r">>), PyList(<<ItemB, ItemA, ItemA>>),
               RcptMoney(Zero, PyInf, Zero, Zero)),
    RawReceipt(PyStr(<<>>), PyList(<<ItemC, ItemA>>),
               RcptMoney(Absent, Absent, Absent, Zero)),
    RawReceipt(Absent, Absent, RcptMoney(Absent, Absent, PyFloat(10), Absent)) >>

InitMerge ==
    /\ \E n \in 1..MaxReceipts : \E pick \in [1..n -> 1..Len(ReceiptPool)] :
           receipts = [i \in 1..n |-> ReceiptPool[pick[i]]]
    /\ merged = MergedInit
    /\ ri = 0
    /\ x = Unset /\ clamped = Unset
    /\ d = Unset /\ out = Unset /\ again = Unset
    /\ serverIdle

\* ri counts the receipts consumed; Len(receipts) + 1 once the function returned
MergeLoop ==
    /\ ri < Len(receipts)
    /\ merged' = MergeOne(merged, receipts[ri + 1])
    /\ ri' = ri + 1
    /\ UNCHANGED <<x, clamped, d, out, again, receipts, serverVars>>

MergeReturn ==
    /\ ri = Len(receipts)
    /\ merged' = MergeFinal(merged)
    /\ ri' = ri + 1
    /\ UNCHANGED <<x, clamped, d, out, again, receipts, serverVars>>

NextMerge == MergeLoop \/ MergeReturn

SpecMerge == InitMerge /\ [][NextMerge]_vars

MergeReturned == ri = Len(receipts) + 1 /\ receipts # <<>>

\* the receipts consumed so far
Consumed == SubSeq(receipts, 1, IF ri > Len(receipts) THEN Len(receipts) ELSE ri)

\* the receipt's value of a money field
FieldOf(r, k) == Get(r, k, Zero)

\* the value of the last receipt of rs whose k is > 0, and 0 when there is none
LastPositive(rs, k) ==
    IF \E i \in 1..Len(rs) : Positive(FieldOf(rs[i], k))
    THEN LET j == CHOOSE i \in 1..Len(rs) :
                     /\ Positive(FieldOf(rs[i], k))
                     /\ \A h \in (i + 1)..Len(rs) : ~ Positive(FieldOf(rs[h], k))
         IN  FieldOf(rs[j], k)
    ELSE Zero

\* C4: each of tax, discount, tip, total of the merge is the value of the last
\* receipt whose field is > 0, and 0 when no receipt has it > 0; a later receipt
\* with 0 never resets it.  Stated after every iteration and at the return.
C4_LastNonZeroWins ==
    (receipts # <<>> /\ merged # Unset) =>
        \A i \in 1..Len(MoneyKeys) :
            merged.f[MoneyKeys[i]] = LastPositive(Consumed, MoneyKeys[i])

\* C4 witness: returned, and total was set by a receipt followed by one with total 0
C4_Witness ==
    /\ MergeReturned
    /\ Len(receipts) >= 3
    /\ ~ Positive(FieldOf(receipts[1], "total"))
    /\ Positive(FieldOf(receipts[2], "total"))
    /\ ~ Positive(FieldOf(receipts[3], "total"))
    /\ merged.f.total = FieldOf(receipts[2], "total")
    /\ Positive(FieldOf(receipts[2], "tax")) /\ Positive(FieldOf(receipts[3], "tax"))
    /\ FieldOf(receipts[2], "tax") # FieldOf(receipts[3], "tax")
    /\ merged.f.tax = FieldOf(receipts[3], "tax")

\* a receipt whose store is non-empty and is not the default
NamesStore(r) ==
    /\ "store" \in DOMAIN r.f
    /\ r.f.store.s # <<>>
    /\ r.f.store.s # DefaultStore

FirstStore(rs) ==
    IF \E i \in 1..Len(rs) : NamesStore(rs[i])
    THEN LET j == CHOOSE i \in 1..Len(rs) :
                     NamesStore(rs[i]) /\ \A h \in 1..(i - 1) : ~ NamesStore(rs[h])
         IN  rs[j].f.store.s
    ELSE DefaultStore

\* C5: the merged store is the store of the first receipt, left to right, whose
\* store is non-empty and not "Receipt", and "Receipt" when there is none; later
\* receipts do not change an adopted store.  Stated after every iteration and at
\* the return.
C5_FirstStoreWins ==
    (receipts # <<>> /\ merged # Unset) =>
        merged.f.store = PyStr(FirstStore(Consumed))

\* C5 witness: returned; the first receipt has no usable store, the second and
\* third name different stores
C5_Witness ==
    /\ MergeReturned
    /\ Len(receipts) >= 3
    /\ ~ NamesStore(receipts[1])
    /\ NamesStore(receipts[2]) /\ NamesStore(receipts[3])
    /\ receipts[2].f.store # receipts[3].f.store
    /\ merged.f.store = receipts[2].f.store

RECURSIVE ConcatItems(_)
ConcatItems(rs) ==
    IF rs = <<>> THEN <<>>
    ELSE ConcatItems(SubSeq(rs, 1, Len(rs) - 1))
             \o Get(rs[Len(rs)], "items", PyList(<<>>)).xs

RECURSIVE SumLen(_)
SumLen(rs) ==
    IF rs = <<>> THEN 0
    ELSE Len(Get(Head(rs), "items", PyList(<<>>)).xs) + SumLen(Tail(rs))

\* the accumulator's items are the consumed receipts' items, end to end
ItemsAreConcatenation ==
    (receipts # <<>> /\ merged # Unset) =>
        /\ merged.f.items.xs = ConcatItems(Consumed)
        /\ Len(merged.f.items.xs) = SumLen(Consumed)

\* C6: the merged items are items(r1) followed by items(r2) ... items(rn): the
\* length is the sum of the lengths, order is kept, nothing is dropped or
\* deduplicated (after every iteration and at the return), and no step of the
\* merge changes the input receipts.
C6_ItemsConcatenated ==
    /\ []ItemsAreConcatenation
    /\ [][receipts' = receipts]_vars

\* C6 witness: returned, with an item that occurs in two receipts kept twice
C6_Witness ==
    /\ MergeReturned
    /\ Len(receipts) >= 2
    /\ Len(merged.f.items.xs) >= 4
    /\ \E i, j \in 1..Len(merged.f.items.xs) :
           i < j /\ merged.f.items.xs[i] = merged.f.items.xs[j]
    /\ merged.f.items.xs[1] # merged.f.items.xs[2]

(***************************************************************************)
(* The POST handler (lines 206-287).                                       *)
(***************************************************************************)
MAX_REQUEST_BYTES == 16 * 1024 * 1024

\* int(s) for a str: whitespace around, an optional sign, decimal digits
ParseInt(s0) ==
    LET s      == Strip(s0)
        signed == s # <<>> /\ s[1] \in {"+", "-"}
        u      == IF signed THEN Tail(s) ELSE s
    IN  IF u # <<>> /\ AllDigits(u)
        THEN PyInt(IF s[1] = "-" THEN 0 - DecVal(u) ELSE DecVal(u))
        ELSE Raise

\* lines 218-221: the Content-Length header read as an int, 0 when that fails
ContentLength(h) ==
    LET v == ParseInt(IF h.t = "absent" THEN <<"0">> ELSE h.s)
    IN  IF v.t = "raise" THEN 0 ELSE v.n

\* a size test that lets a body of one byte more through
BodyTooLargeOffByOne(n) == n > MAX_REQUEST_BYTES + 1

\* line 226
BodyTooLarge(n) == n > MAX_REQUEST_BYTES

IsB64Char(c) ==
    \/ \E i \in 1..26 : Lower[i] = c \/ Upper[i] = c
    \/ IsDigit(c) \/ c = "+" \/ c = "/"

\* base64.b64decode(s, validate=True) succeeds: alphabet characters in groups
\* of four, the last group padded with "=" to four.  Padding after a complete
\* group is not part of the strings the model draws.
B64Valid(s) ==
    \E p \in 0..2 :
        /\ p <= Len(s)
        /\ \A i \in 1..(Len(s) - p) : IsB64Char(s[i])
        /\ \A i \in (Len(s) - p + 1)..Len(s) : s[i] = "="
        /\ Len(s) % 4 = 0
        /\ (Len(s) - p > 0 \/ s = <<>>)

Resp(code, ok, data, error) == [code |-> code, ok |-> ok, data |-> data, error |-> error]

Msg_quota ==
    <<"Q","u","o","t","a"," ","e","x","c","e","e","d","e","d",".">>

\* lines 246-247
IsQuota(msg) ==
    LET low == StrLower(msg)
    IN  \/ Contains(msg, <<"4","2","9">>)
        \/ Contains(low, <<"q","u","o","t","a">>)
        \/ Contains(low, <<"r","e","s","o","u","r","c","e","_","e","x","h","a","u","s","t","e","d">>)

\* the except clause of lines 244-258: one error response, whatever was gathered
SendError(msg) ==
    Resp(400, FALSE, PyNone, IF IsQuota(msg) THEN Msg_quota ELSE msg)

Msg_attr        == <<"o","b","j","e","c","t"," ","h","a","s"," ","n","o"," ","a","t","t","r","i","b","u","t","e"," ","'","g","e","t","'">>
Msg_missing_b64 == <<"M","i","s","s","i","n","g"," ","i","m","a","g","e","_","b","6","4">>
Msg_missing_imgs == <<"M","i","s","s","i","n","g"," ","i","m","a","g","e","s","[","]">>
Msg_no_valid    == <<"N","o"," ","v","a","l","i","d"," ","i","m","a","g","e","s"," ","i","n"," ","i","m","a","g","e","s","[","]">>
Msg_b64         == <<"I","n","v","a","l","i","d"," ","b","a","s","e","6","4","-","e","n","c","o","d","e","d"," ","s","t","r","i","n","g">>
Msg_b64_type    == <<"a","r","g","u","m","e","n","t"," ","s","h","o","u","l","d"," ","b","e"," ","a"," ","b","y","t","e","s","-","l","i","k","e"," ","o","b","j","e","c","t"," ","o","r"," ","A","S","C","I","I"," ","s","t","r","i","n","g">>
Msg_empty       == <<"E","m","p","t","y"," ","r","e","s","p","o","n","s","e"," ","f","r","o","m"," ","m","o","d","e","l">>
Msg_json        == <<"E","x","p","e","c","t","i","n","g"," ","v","a","l","u","e">>
Jpeg            == <<"i","m","a","g","e","/","j","p","e","g">>

\* what the provider call of lines 119-127 and the decoding of lines 129-133 give
ModelReplies == <<
    [t |-> "provider_error", msg |-> <<"4","2","9"," ","R","E","S","O","U","R","C","E","_","E","X","H","A","U","S","T","E","D">>],
    [t |-> "provider_error", msg |-> <<"c","o","n","n","e","c","t","i","o","n"," ","r","e","s","e","t">>],
    [t |-> "empty"],
    [t |-> "badjson"],
    [t |-> "json", v |-> PyList(<<>>)],
    [t |-> "json", v |-> RawReceipt(PyStr(<<" ","T","r","a","d","e","r"," ","J","o","e","'","s"," ">>), PyList(<<ItemVals[1], ItemVals[2]>>),
                                    MoneyVals[1])],
    [t |-> "json", v |-> RawReceipt(PyStr(<<>>), PyList(<<ItemVals[7]>>), MoneyVals[2])] >>

\* parse_with_gemini (lines 115-134) for one reply of the provider:
\* [t |-> "raise", msg] or [t |-> "ok", data]
parse_with_gemini(reply) ==
    CASE reply.t = "provider_error" -> [t |-> "raise", msg |-> reply.msg]
      [] reply.t = "empty"          -> [t |-> "raise", msg |-> Msg_empty]
      [] reply.t = "badjson"        -> [t |-> "raise", msg |-> Msg_json]
      [] reply.t = "json"           ->
            LET r == normalize_receipt(reply.v)
            IN  IF r.t = "raise" THEN [t |-> "raise", msg |-> Msg_attr]
                ELSE [t |-> "ok", data |-> r]

\* x.get("media_type", "image/jpeg") or "image/jpeg"   (lines 262, 278)
MediaType(dct) == Or(Get(dct, "media_type", PyStr(Jpeg)), PyStr(Jpeg))

Event(entry, ev, media) == [entry |-> entry, ev |-> ev, media |-> media]

\* request headers, paths and bodies
LengthHeaders == << Absent, PyStr(<<"a","b","c">>), PyStr(<<"0">>), PyStr(<<"-","5">>), PyStr(<<"1","7">>),
                    PyStr(<<"1","6","7","7","7","2","1","6">>), PyStr(<<"1","6","7","7","7","2","1","7">>) >>

Paths == << "/parse", "/parse_multi", "/health" >>

InvalidBody == [t |-> "invalid"]     \* bytes that are no UTF-8 JSON text

B64_ok   == PyStr(<<"Q","U","J","D">>)
B64_ok2  == PyStr(<<"Q","Q","=","=">>)

\* entries of images[]
EntryVals == <<
    MkDict([image_b64 |-> B64_ok,        media_type |-> Absent]),
    MkDict([image_b64 |-> B64_ok2,       media_type |-> PyStr(<<"a","p","p","l","i","c","a","t","i","o","n","/","p","d","f">>)]),
    MkDict([image_b64 |-> PyStr(<<>>),     media_type |-> PyStr(<<>>)]),
    MkDict([image_b64 |-> Absent,        media_type |-> Absent]),
    MkDict([image_b64 |-> PyStr(<<"Q","U","J">>),  media_type |-> Absent]),
    MkDict([image_b64 |-> PyInt(5),      media_type |-> Absent]),
    PyStr(<<"Q","U","J","D">>) >>

\* the images[] of n entries of EntryVals that pick selects
ImageList(n, pick) == [i \in 1..n |-> EntryVals[pick[i]]]

\* bodies besides {"images": [...]}
OtherBodies == <<
    InvalidBody, PyNone, PyList(<<>>), EmptyDict,
    MkDict([image_b64 |-> B64_ok,         media_type |-> PyStr(<<>>)]),
    MkDict([image_b64 |-> B64_ok2,        media_type |-> PyStr(<<"a","p","p","l","i","c","a","t","i","o","n","/","p","d","f">>)]),
    MkDict([image_b64 |-> PyStr(<<>>),      media_type |-> Absent]),
    MkDict([image_b64 |-> PyStr(<<"!","!","!","!">>),  media_type |-> Absent]),
    MkDict([image_b64 |-> PyInt(5),       media_type |-> Absent]),
    MkDict([image_b64 |-> PyNone,         media_type |-> Absent]),
    MkDict([images |-> PyStr(<<"Q","U","J","D">>)]),
    MkDict([images |-> PyNone]) >>

Init ==
    /\ has_sdk \in BOOLEAN
    /\ api_key \in {"", "key"}
    /\ pc = "serving"
    /\ path = "" /\ length = 0 /\ body = Unset
    /\ idx = 0 /\ collected = <<>> /\ log = <<>> /\ response = Unset
    /\ x = Unset /\ clamped = Unset
    /\ d = Unset /\ out = Unset /\ again = Unset
    /\ pureIdle

pureVars == <<x, clamped, d, out, again, receipts, merged, ri>>

\* do_POST up to the dispatch of lines 238-241, for a request with path p,
\* Content-Length header h and body bytes that decode to b
PostRequest(p, h, b) ==
    \* the request as it arrived: its path, declared length and decoded body
    /\ path' = p /\ length' = ContentLength(h) /\ body' = b
    /\ UNCHANGED <<has_sdk, api_key, idx, collected, log, pureVars>>
    /\ IF p \notin {"/parse", "/parse_multi"}
       THEN response' = Resp(404, FALSE, PyNone, <<"n","o","t"," ","f","o","u","n","d">>) /\ pc' = "done"
       ELSE IF ~ has_sdk
       THEN response' = Resp(400, FALSE, PyNone, <<"g","o","o","g","l","e","-","g","e","n","a","i"," ","n","o","t"," ","i","n","s","t","a","l","l","e","d">>) /\ pc' = "done"
       ELSE IF api_key = ""
       THEN response' = Resp(400, FALSE, PyNone, <<"G","E","M","I","N","I","_","A","P","I","_","K","E","Y"," ","n","o","t"," ","s","e","t">>) /\ pc' = "done"
       ELSE IF ContentLength(h) <= 0
       THEN response' = Resp(400, FALSE, PyNone, <<"E","m","p","t","y"," ","r","e","q","u","e","s","t"," ","b","o","d","y">>) /\ pc' = "done"
       ELSE IF BodyTooLarge(ContentLength(h))
       THEN response' = Resp(413, FALSE, PyNone, <<"R","e","q","u","e","s","t"," ","t","o","o"," ","l","a","r","g","e">>) /\ pc' = "done"
       ELSE IF b.t = "invalid"
       THEN response' = Resp(400, FALSE, PyNone, <<"I","n","v","a","l","i","d"," ","J","S","O","N"," ","b","o","d","y">>) /\ pc' = "done"
       ELSE /\ response' = response
            /\ pc' = IF p = "/parse" THEN "handle_parse" ELSE "handle_parse_multi"

do_POST ==
    /\ pc = "serving"
    /\ \E i \in 1..Len(Paths), j \in 1..Len(LengthHeaders) :
          \/ \E k \in 1..Len(OtherBodies) :
                 PostRequest(Paths[i], LengthHeaders[j], OtherBodies[k])
          \/ \E n \in 0..MaxImages : \E pick \in [1..n -> 1..Len(EntryVals)] :
                 PostRequest(Paths[i], LengthHeaders[j],
                             MkDict([images |-> PyList(ImageList(n, pick))]))

\* handle_parse (lines 260-266) and the response of lines 243-258
handle_parse ==
    /\ pc = "handle_parse"
    /\ pc' = "done"
    /\ UNCHANGED <<has_sdk, api_key, path, length, body, idx, collected, pureVars>>
    /\ IF body.t # "dict"
       THEN response' = SendError(Msg_attr) /\ log' = log
       ELSE LET image_b64 == Get(body, "image_b64", PyStr(<<>>))
            IN  IF image_b64.t # "str" \/ ~ Truthy(image_b64)
                THEN response' = SendError(Msg_missing_b64) /\ log' = log
                ELSE IF ~ B64Valid(image_b64.s)
                THEN /\ response' = SendError(Msg_b64)
                     /\ log' = Append(log, Event(1, "decode_failed", PyNone))
                ELSE \E k \in 1..Len(ModelReplies) :
                      \E res \in {parse_with_gemini(ModelReplies[k])} :
                            IF res.t = "raise"
                            THEN /\ response' = SendError(res.msg)
                                 /\ log' = Append(log, Event(1, "call_failed", MediaType(body)))
                            ELSE /\ response' = Resp(200, TRUE, res.data, <<>>)
                                 /\ log' = Append(log, Event(1, "call_ok", MediaType(body)))

\* handle_parse_multi, lines 269-273
multi_begin ==
    /\ pc = "handle_parse_multi"
    /\ UNCHANGED <<has_sdk, api_key, path, length, body, log, pureVars>>
    /\ IF body.t # "dict"
       THEN /\ response' = SendError(Msg_attr) /\ pc' = "done"
            /\ UNCHANGED <<idx, collected>>
       ELSE LET images == Get(body, "images", PyList(<<>>))
            IN  IF images.t # "list" \/ Len(images.xs) = 0
                THEN /\ response' = SendError(Msg_missing_imgs) /\ pc' = "done"
                     /\ UNCHANGED <<idx, collected>>
                ELSE /\ pc' = "multi_loop" /\ idx' = 1 /\ collected' = <<>>
                     /\ response' = response

\* a test that forgets the empty image_b64
EntrySkippedOnlyNonDict(item) == item.t # "dict"

\* lines 275-280: the entry is passed over without decoding or extraction
EntrySkipped(item) ==
    \/ item.t # "dict"
    \/ ~ Truthy(Get(item, "image_b64", PyStr(<<>>)))

\* line 281 raises
DecodeFails(item) ==
    LET image_b64 == Get(item, "image_b64", PyStr(<<>>))
    IN  image_b64.t # "str" \/ ~ B64Valid(image_b64.s)

\* str(e) of the exception line 281 raises: a TypeError for a value that is no
\* str, a binascii.Error for a str that is no base64
DecodeError(item) ==
    IF Get(item, "image_b64", PyStr(<<>>)).t # "str" THEN Msg_b64_type ELSE Msg_b64

\* an exception handler inside the loop that drops the failing image and goes on
AfterFailureContinue(msg) == [pc |-> "multi_loop", response |-> Unset]

\* lines 281-282 raise out of the loop into the except clause of lines 244-258
AfterFailure(msg) == [pc |-> "done", response |-> SendError(msg)]

\* one iteration of the loop of lines 274-282, for images[idx]
multi_entry ==
    /\ pc = "multi_loop"
    /\ idx <= Len(body.f.images.xs)
    /\ idx' = idx + 1
    /\ UNCHANGED <<has_sdk, api_key, path, length, body, pureVars>>
    /\ LET item == body.f.images.xs[idx]
       IN  IF EntrySkipped(item)
           THEN /\ log' = Append(log, Event(idx, "skipped", PyNone))
                /\ UNCHANGED <<pc, collected, response>>
           ELSE IF DecodeFails(item)
           THEN /\ log' = Append(log, Event(idx, "decode_failed", PyNone))
                /\ pc' = AfterFailure(DecodeError(item)).pc
                /\ response' = AfterFailure(DecodeError(item)).response
                /\ collected' = collected
           ELSE \E k \in 1..Len(ModelReplies) :
                 \E res \in {parse_with_gemini(ModelReplies[k])} :
                       IF res.t = "raise"
                       THEN /\ log' = Append(log, Event(idx, "call_failed", MediaType(item)))
                            /\ pc' = AfterFailure(res.msg).pc
                            /\ response' = AfterFailure(res.msg).response
                            /\ collected' = collected
                       ELSE /\ log' = Append(log, Event(idx, "call_ok", MediaType(item)))
                            /\ collected' = Append(collected, res.data)
                            /\ UNCHANGED <<pc, response>>

\* lines 284-287 and the response of line 243
multi_end ==
    /\ pc = "multi_loop"
    /\ idx > Len(body.f.images.xs)
    /\ pc' = "done"
    /\ UNCHANGED <<has_sdk, api_key, path, length, body, idx, collected, log, pureVars>>
    /\ IF collected = <<>>
       THEN response' = SendError(Msg_no_valid)
       ELSE response' = Resp(200, TRUE, merge_receipts(collected), <<>>)

Next == do_POST \/ handle_parse \/ multi_begin \/ multi_entry \/ multi_end

Spec == Init /\ [][Next]_vars

(***************************************************************************)
(* Properties of the POST handler.                                         *)
(***************************************************************************)
IsCall(e)    == e.ev \in {"call_ok", "call_failed"}
IsFailure(e) == e.ev \in {"call_failed", "decode_failed"}

NoCalls == \A i \in 1..Len(log) : ~ IsCall(log[i])

\* C7: in a multi-image request the extraction calls are made one at a time in
\* submission order; once an extraction or a decoding has failed nothing more is
\* done for the request, the response is an error, and no merged receipt of the
\* images that succeeded is returned.
C7_SequentialAbort ==
    path = "/parse_multi" =>
        /\ \A i, j \in 1..Len(log) : i < j => log[i].entry < log[j].entry
        /\ \A i \in 1..Len(log) : IsFailure(log[i]) => i = Len(log)
        /\ (\E i \in 1..Len(log) : IsFailure(log[i])) =>
               /\ pc = "done"
               /\ response.ok = FALSE
               /\ response.data = PyNone
               /\ response.code = 400

\* C7 witness: the first image was extracted, the second failed, and a third one
\* that carries valid image data was never touched
C7_Witness ==
    /\ path = "/parse_multi" /\ pc = "done"
    /\ Len(log) = 2
    /\ log[1].ev = "call_ok" /\ log[2].ev = "call_failed"
    /\ Len(body.f.images.xs) = 3
    /\ ~ EntrySkipped(body.f.images.xs[3]) /\ ~ DecodeFails(body.f.images.xs[3])
    /\ response.ok = FALSE

\* the request passed every test of lines 211-235
Admitted ==
    /\ has_sdk
    /\ api_key # ""
    /\ length > 0
    /\ length <= 16 * 1024 * 1024
    /\ body.t # "invalid"

\* C8: no extraction call is made unless the SDK is available, the API key is
\* non-empty, the declared length is > 0 and at most 16 MiB, and the body decodes
\* as JSON; a request failing one of these ends with an error response and no
\* extraction call.
C8_NoCallUnlessAdmitted ==
    /\ ~ NoCalls => Admitted
    /\ (pc = "done" /\ ~ Admitted) => (response.ok = FALSE /\ NoCalls)

\* C8 witness: an extraction call for a body of exactly 16 MiB
C8_Witness ==
    /\ ~ NoCalls
    /\ length = 16 * 1024 * 1024
    /\ pc = "done" /\ response.ok

\* C8 witness is the admitted side; this is a rejected request of 16 MiB + 1
C8_RejectedReached ==
    /\ pc = "done" /\ has_sdk /\ api_key # "" /\ body.t # "invalid"
    /\ length = 16 * 1024 * 1024 + 1
    /\ response.code = 413

\* image data is missing: not a mapping, image_b64 absent, or image_b64 empty
MissingData(e) ==
    \/ e.t # "dict"
    \/ ~ ("image_b64" \in DOMAIN e.f)
    \/ e.f.image_b64 = PyStr(<<>>)

\* the request reached the loop of handle_parse_multi
InMultiLoop ==
    /\ path = "/parse_multi" /\ Admitted
    /\ body.t = "dict" /\ Get(body, "images", PyNone).t = "list"
    /\ body.f.images.xs # <<>>
    /\ pc \in {"multi_loop", "done"}

\* C9 as stated: a multi-image request with an entry whose image data is missing
\* is rejected with an error and never answered ok: true.
C9_MissingEntryRejected ==
    (InMultiLoop /\ pc = "done"
       /\ \E i \in 1..Len(body.f.images.xs) : MissingData(body.f.images.xs[i]))
    => response.ok = FALSE

\* C9 amended: an entry of images[] with missing image data is passed over, with
\* no decoding and no extraction call, and does not by itself fail the request;
\* the request is rejected with an error when no entry carries image data, and is
\* answered ok: true when every entry that was not passed over was extracted and
\* there is one; a single-image request with missing image_b64 is rejected.
C9_MissingEntrySkipped ==
    /\ InMultiLoop =>
         /\ \A i \in 1..Len(log) :
                MissingData(body.f.images.xs[log[i].entry]) => log[i].ev = "skipped"
         /\ (pc = "done" /\ \A i \in 1..Len(body.f.images.xs) :
                                 MissingData(body.f.images.xs[i]))
                => (response.ok = FALSE /\ response.error = Msg_no_valid /\ NoCalls)
         /\ (pc = "done" /\ (\E i \in 1..Len(log) : log[i].ev = "call_ok")
                         /\ (\A i \in 1..Len(log) : log[i].ev \in {"call_ok", "skipped"}))
                => response.ok = TRUE
    /\ (path = "/parse" /\ Admitted /\ pc = "done" /\ body.t = "dict"
          /\ MissingData(body))
         => (response.ok = FALSE /\ response.error = Msg_missing_b64 /\ NoCalls)

\* C9 witness: answered ok: true although an entry with missing image data was
\* submitted (and passed over)
C9_Witness ==
    /\ InMultiLoop /\ pc = "done"
    /\ response.ok = TRUE
    /\ \E i \in 1..Len(log) :
           log[i].ev = "skipped" /\ MissingData(body.f.images.xs[log[i].entry])
====
